---- MODULE Spec2Model ----
(***************************************************************************)
(* Clause segmentation of doc-clause-extractor.                            *)
(*                                                                         *)
(* Strings are sequences of one-character strings.  The module models      *)
(*   - process_text_pages (src/convert.py and src/streamlit_app.py), one   *)
(*     step per iteration of its loops;                                    *)
(*   - create_structured_word (src/streamlit_app.py), likewise;            *)
(*   - convert_file (src/convert.py), one step per check, extraction and   *)
(*     sink operation.                                                     *)
(***************************************************************************)
EXTENDS Integers, Sequences, FiniteSets, TLC

VARIABLES
    impl,            \* which copy of process_text_pages runs: "convert" | "streamlit"
    text_pages,      \* the argument: a sequence of page strings
    pc,              \* process_text_pages: "idle" | "page" | "line" | "flush" | "done"
    pi,              \* pages taken so far by the outer for loop
    lines,           \* page_content.splitlines() of the current page
    li,              \* lines taken so far by the inner for loop
    current_clause,  \* None or the identifier of the open clause
    current_text,    \* the text accumulated for the open clause
    rows,            \* the records sealed so far
    df,              \* the returned frame (rows plus the description column)
    phase,           \* "first" | "refeed": whether the input is a re-fed record
    orig,            \* the record that was fed back (None in the first run)
    w_pc,            \* create_structured_word: "idle" | "page" | "line" | "save" | "done"
    w_pi,            \* pages taken by its outer loop
    w_lines,         \* page.splitlines() of its current page
    w_li,            \* lines taken by its inner loop
    doc,             \* the elements added to the Word document, in order
    c_pc,            \* convert_file: "idle" | "exists" | "dispatch" | "target" | "pg" | "done" | "error"
    c_in,            \* convert_file's arguments and the file system it sees
    c_err,           \* the exception convert_file raised (None: none)
    c_pages,         \* its local text_pages (None before extraction)
    extracted,       \* number of extraction calls made
    sink             \* what the sinks hold: the Excel file, the table, the rows

vars == <<impl, text_pages, pc, pi, lines, li, current_clause, current_text,
          rows, df, phase, orig, w_pc, w_pi, w_lines, w_li, doc,
          c_pc, c_in, c_err, c_pages, extracted, sink>>

segVars == <<impl, text_pages, pc, pi, lines, li, current_clause, current_text,
             rows, df, phase, orig>>
wordVars == <<w_pc, w_pi, w_lines, w_li, doc>>
convVars == <<c_pc, c_in, c_err, c_pages, extracted, sink>>

---------------------------------------------------------------------------
(* Bounds of the model. *)

\* The input is built from at most MaxTokens tokens (a line or a page break).
MaxTokens == 3

---------------------------------------------------------------------------
(* Characters and strings. *)

\* Python's None; the empty string is the only other falsy value that occurs.
None == <<>>

NL == "\n"

IsDigit(c) == c \in {"0", "1", "2", "3", "4", "5", "6", "7", "8", "9"}

IsSpace(c) == c \in {" ", "\t", NL}

SetMin(S) == CHOOSE x \in S : \A y \in S : x <= y

SetMax(S) == CHOOSE x \in S : \A y \in S : x >= y

\* str.strip(): leading and trailing whitespace removed.
strip(s) ==
    LET ns == {i \in 1..Len(s) : ~IsSpace(s[i])}
    IN  IF ns = {} THEN <<>> ELSE SubSeq(s, SetMin(ns), SetMax(ns))

\* str.splitlines(): split at line breaks; no empty last line after a final break.
RECURSIVE splitlines(_)
splitlines(s) ==
    IF s = <<>> THEN <<>>
    ELSE LET nl == {i \in 1..Len(s) : s[i] = NL}
         IN  IF nl = {} THEN <<s>>
             ELSE LET k == SetMin(nl)
                  IN  <<SubSeq(s, 1, k - 1)>> \o splitlines(SubSeq(s, k + 1, Len(s)))

\* Strings joined by line breaks (the text a sequence of lines came from).
RECURSIVE JoinLines(_)
JoinLines(ls) ==
    IF ls = <<>> THEN <<>>
    ELSE IF Len(ls) = 1 THEN Head(ls)
    ELSE Head(ls) \o <<NL>> \o JoinLines(Tail(ls))

---------------------------------------------------------------------------
(* The clause patterns.  Greedy matching is exact for them: no shorter     *)
(* match of the number lets the rest of the pattern succeed.               *)

\* \d* from position i: the last position of the run of digits (i-1: none).
DigitRunEnd(s, i) ==
    SetMin({j \in i..(Len(s) + 1) : j = Len(s) + 1 \/ ~IsDigit(s[j])}) - 1

\* \s* from position i: the last position of the run of whitespace (i-1: none).
SpaceRunEnd(s, i) ==
    SetMin({j \in i..(Len(s) + 1) : j = Len(s) + 1 \/ ~IsSpace(s[j])}) - 1

\* (?:\.\d+)* after a digit run ending at d: the last position matched, the
\* longest stretch of digits and dots in which a digit follows every dot.
GroupsEnd(s, d) ==
    SetMax({n \in d..Len(s) :
               \A i \in (d + 1)..n :
                   \/ IsDigit(s[i])
                   \/ s[i] = "." /\ i < n /\ IsDigit(s[i + 1])})

NoMatch == [ok |-> FALSE, g1 |-> <<>>, g2 |-> <<>>]

\* re.match of ^\s*(\d+(?:\.\d+)*D)\s+(.*) where D is \.? when trailingDot
\* and empty otherwise; g1 and g2 are match.group(1) and match.group(2).
clause_pattern_match(trailingDot, s) ==
    LET a == SpaceRunEnd(s, 1)
        d == DigitRunEnd(s, a + 1)
    IN  IF d < a + 1 THEN NoMatch
        ELSE LET n == GroupsEnd(s, d)
                 t == IF trailingDot /\ n + 1 <= Len(s) /\ s[n + 1] = "."
                      THEN n + 1 ELSE n
                 w == SpaceRunEnd(s, t + 1)
                 e == LET nl == {i \in (w + 1)..Len(s) : s[i] = NL}
                      IN  IF nl = {} THEN Len(s) ELSE SetMin(nl) - 1
             IN  IF w < t + 1 THEN NoMatch
                 ELSE [ok |-> TRUE, g1 |-> SubSeq(s, a + 1, t),
                       g2 |-> SubSeq(s, w + 1, e)]

\* src/convert.py:53: no trailing dot.
match_convert(s) == clause_pattern_match(FALSE, s)

\* src/streamlit_app.py:108: optional trailing dot, captured in group 1.
match_streamlit(s) == clause_pattern_match(TRUE, s)

\* The pattern of the copy of process_text_pages that runs.
clause_match(im, s) == IF im = "convert" THEN match_convert(s) ELSE match_streamlit(s)

---------------------------------------------------------------------------
(* process_text_pages: the loop body and the function as a whole.          *)

\* `if not line` / `if current_clause`: Python truthiness of a string or None.
Truthy(x) == x # None

\* Variant of seal: the append without its `if current_clause` guard.
seal_unguarded(st) ==
    Append(st.rows, [clause_number |-> st.current_clause,
                     content |-> strip(st.current_text)])

\* rows.append({...}) guarded by `if current_clause` (lines 69-73 and 82-86).
seal(st) ==
    IF Truthy(st.current_clause)
    THEN Append(st.rows, [clause_number |-> st.current_clause,
                          content |-> strip(st.current_text)])
    ELSE st.rows

\* Variant of HeadingStep: the open record is dropped instead of sealed.
HeadingStep_noseal(st, m) ==
    [current_clause |-> m.g1, current_text |-> m.g2, rows |-> st.rows]

\* The `if match:` branch: seal the open record, open the new one.
HeadingStep(st, m) ==
    [current_clause |-> m.g1, current_text |-> m.g2, rows |-> seal(st)]

\* Variant of ContinuationStep: the append without its `if current_clause` guard.
ContinuationStep_unguarded(st, line) ==
    [st EXCEPT !.current_text = @ \o <<" ">> \o line]

\* Variant of ContinuationStep: the append without the separating space.
ContinuationStep_nospace(st, line) ==
    IF Truthy(st.current_clause)
    THEN [st EXCEPT !.current_text = @ \o line]
    ELSE st

\* The `else:` branch: append to the open record, if there is one.
ContinuationStep(st, line) ==
    IF Truthy(st.current_clause)
    THEN [st EXCEPT !.current_text = @ \o <<" ">> \o line]
    ELSE st

\* Variant of IsBlankLine: no line is skipped.
IsBlankLine_never(line) == FALSE

\* `if not line: continue`
IsBlankLine(line) == ~Truthy(line)

\* One iteration of the inner loop on a raw line.
ProcessLine(im, st, raw) ==
    LET line == strip(raw)
    IN  IF IsBlankLine(line) THEN st
        ELSE LET m == clause_match(im, line)
             IN  IF m.ok THEN HeadingStep(st, m) ELSE ContinuationStep(st, line)

RECURSIVE ProcessLines(_, _, _)
ProcessLines(im, st, ls) ==
    IF ls = <<>> THEN st
    ELSE ProcessLines(im, ProcessLine(im, st, Head(ls)), Tail(ls))

RECURSIVE ProcessPages(_, _, _)
ProcessPages(im, st, pages) ==
    IF pages = <<>> THEN st
    ELSE ProcessPages(im, ProcessLines(im, st, splitlines(Head(pages))), Tail(pages))

\* pd.DataFrame(rows) followed by df["description"] = "".
DataFrame(rs) ==
    [i \in 1..Len(rs) |-> [clause_number |-> rs[i].clause_number,
                           content |-> rs[i].content,
                           description |-> <<>>]]

InitialState == [current_clause |-> None, current_text |-> <<>>, rows |-> <<>>]

\* The function as a whole.
process_text_pages(im, pages) == DataFrame(seal(ProcessPages(im, InitialState, pages)))

---------------------------------------------------------------------------
(* Inputs. *)

\* A page break between tokens (no line is equal to it).
PB == <<"PB">>

L_empty == <<>>
L_space == <<" ">>
L_plain == <<"a">>
L_head == <<"1", " ", "a">>
L_dot == <<"1", ".", " ", "a">>
L_deep == <<" ", "1", ".", "1", ".", "1", ".", "1", ".", "1", " ", " ", "1", " ", "b", " ">>
L_digits == <<"1">>

\* The raw lines inputs are built from: empty, whitespace only, plain text,
\* a heading, a heading with a trailing dot, a five-level heading with
\* surrounding whitespace whose remainder looks like a heading, bare digits.
Lines == {L_empty, L_space, L_plain, L_head, L_dot, L_deep, L_digits}

Tokens == Lines \cup {PB}

TokenSeqs == UNION {[1..n -> Tokens] : n \in 0..MaxTokens}

\* The pages a token sequence stands for: lines joined by line breaks, a new
\* page at each page break.
RECURSIVE BuildPages(_, _, _)
BuildPages(toks, pages, fresh) ==
    IF toks = <<>> THEN pages
    ELSE LET t == Head(toks)
             n == Len(pages)
         IN  IF t = PB THEN BuildPages(Tail(toks), Append(pages, <<>>), TRUE)
             ELSE BuildPages(Tail(toks),
                             [pages EXCEPT ![n] = IF fresh THEN t ELSE @ \o <<NL>> \o t],
                             FALSE)

\* Every input: no page at all, or the pages of a token sequence.
Inputs == {<<>>} \cup {BuildPages(ts, << <<>> >>, TRUE) : ts \in TokenSeqs}

---------------------------------------------------------------------------
(* process_text_pages as a state machine. *)

State == [current_clause |-> current_clause, current_text |-> current_text,
          rows |-> rows]

WordIdle == w_pc = "idle" /\ w_pi = 0 /\ w_lines = <<>> /\ w_li = 0 /\ doc = <<>>

\* Nothing written: no Excel file, no table, no row, no commit.
EmptySink == [excel |-> None, table |-> FALSE, inserted |-> <<>>, committed |-> FALSE]

ConvIdle ==
    /\ c_pc = "idle" /\ c_in = None /\ c_err = None /\ c_pages = None
    /\ extracted = 0 /\ sink = EmptySink

SegIdle ==
    /\ pc = "idle" /\ pi = 0 /\ lines = <<>> /\ li = 0
    /\ current_clause = None /\ current_text = <<>> /\ rows = <<>> /\ df = <<>>
    /\ phase = "first" /\ orig = None

SegStart ==
    /\ pc = "page" /\ pi = 0 /\ lines = <<>> /\ li = 0
    /\ current_clause = None /\ current_text = <<>> /\ rows = <<>> /\ df = <<>>

Init ==
    /\ impl \in {"convert", "streamlit"}
    /\ text_pages \in Inputs
    /\ SegStart
    /\ phase = "first" /\ orig = None
    /\ WordIdle
    /\ ConvIdle

\* Variant of NextPage: the open clause is reset at each page.
NextPage_reset ==
    /\ pc = "page" /\ pi < Len(text_pages)
    /\ pi' = pi + 1
    /\ lines' = splitlines(text_pages[pi + 1])
    /\ li' = 0
    /\ pc' = "line"
    /\ current_clause' = None
    /\ current_text' = <<>>
    /\ UNCHANGED <<impl, text_pages, rows, df, phase, orig>>
    /\ UNCHANGED <<wordVars, convVars>>

\* for page_content in text_pages: lines = page_content.splitlines()
NextPage ==
    /\ pc = "page" /\ pi < Len(text_pages)
    /\ pi' = pi + 1
    /\ lines' = splitlines(text_pages[pi + 1])
    /\ li' = 0
    /\ pc' = "line"
    /\ UNCHANGED <<impl, text_pages, current_clause, current_text, rows, df, phase, orig>>
    /\ UNCHANGED <<wordVars, convVars>>

\* The outer loop is exhausted.
PagesExhausted ==
    /\ pc = "page" /\ pi = Len(text_pages)
    /\ pc' = "flush"
    /\ UNCHANGED <<impl, text_pages, pi, lines, li, current_clause, current_text,
                   rows, df, phase, orig>>
    /\ UNCHANGED <<wordVars, convVars>>

\* The inner loop is exhausted.
EndOfPage ==
    /\ pc = "line" /\ li = Len(lines)
    /\ pc' = "page"
    /\ UNCHANGED <<impl, text_pages, pi, lines, li, current_clause, current_text,
                   rows, df, phase, orig>>
    /\ UNCHANGED <<wordVars, convVars>>

\* The inner loop takes the next line and runs its body on it.
Consume ==
    LET st == ProcessLine(impl, State, lines[li + 1])
    IN  /\ current_clause' = st.current_clause
        /\ current_text' = st.current_text
        /\ rows' = st.rows
        /\ li' = li + 1
        /\ UNCHANGED <<impl, text_pages, pc, pi, lines, df, phase, orig>>
        /\ UNCHANGED <<wordVars, convVars>>

AtLine == pc = "line" /\ li < Len(lines)

NextLine == strip(lines[li + 1])

SkipBlank == AtLine /\ ~Truthy(NextLine) /\ Consume

MatchHeading ==
    AtLine /\ Truthy(NextLine) /\ clause_match(impl, NextLine).ok /\ Consume

AppendContinuation ==
    /\ AtLine /\ Truthy(NextLine) /\ ~clause_match(impl, NextLine).ok
    /\ Truthy(current_clause)
    /\ Consume

DiscardOrphan ==
    /\ AtLine /\ Truthy(NextLine) /\ ~clause_match(impl, NextLine).ok
    /\ ~Truthy(current_clause)
    /\ Consume

\* After the loops: seal the open record, build the frame, return it.
Finish ==
    /\ pc = "flush"
    /\ rows' = seal(State)
    /\ df' = DataFrame(rows')
    /\ pc' = "done"
    /\ UNCHANGED <<impl, text_pages, pi, lines, li, current_clause, current_text,
                   phase, orig>>
    /\ UNCHANGED <<wordVars, convVars>>

SegNext ==
    \/ NextPage
    \/ PagesExhausted
    \/ EndOfPage
    \/ SkipBlank
    \/ MatchHeading
    \/ AppendContinuation
    \/ DiscardOrphan
    \/ Finish

Next == SegNext

Spec == Init /\ [][Next]_vars

---------------------------------------------------------------------------
(* Feeding a returned record back (the round trip of the specification's   *)
(* testable properties): the input becomes one page of two lines, a        *)
(* heading with the record's identifier and the record's content.          *)

RefeedHeadingText == <<"h">>

Refeed ==
    /\ pc = "done" /\ phase = "first"
    /\ \E i \in 1..Len(df) :
          /\ text_pages' = << df[i].clause_number \o <<" ">> \o RefeedHeadingText
                              \o <<NL>> \o df[i].content >>
          /\ orig' = df[i]
    /\ phase' = "refeed"
    /\ pc' = "page" /\ pi' = 0 /\ lines' = <<>> /\ li' = 0
    /\ current_clause' = None /\ current_text' = <<>> /\ rows' = <<>> /\ df' = <<>>
    /\ UNCHANGED impl
    /\ UNCHANGED <<wordVars, convVars>>

RefeedNext == SegNext \/ Refeed

RefeedSpec == Init /\ [][RefeedNext]_vars

---------------------------------------------------------------------------
(* create_structured_word as a state machine. *)

\* Variant of match_word: the pattern without the optional trailing dot.
match_word_nodot(s) == clause_pattern_match(FALSE, s)

\* src/streamlit_app.py:46: optional trailing dot, captured in group 1.
match_word(s) == clause_pattern_match(TRUE, s)

\* clause_number.count(".")
CountDots(id) == Cardinality({i \in 1..Len(id) : id[i] = "."})

\* level = clause_number.count(".") + 1; level = min(level, 4)
heading_level(id) == IF CountDots(id) + 1 < 4 THEN CountDots(id) + 1 ELSE 4

\* doc.add_heading(f"{clause_number} {content}", level=level)
add_heading(d, m) ==
    Append(d, [kind |-> "heading", text |-> m.g1 \o <<" ">> \o m.g2,
               level |-> heading_level(m.g1)])

\* doc.add_paragraph(line)
add_paragraph(d, line) == Append(d, [kind |-> "paragraph", text |-> line, level |-> 0])

WordInit ==
    /\ impl = "streamlit"
    /\ text_pages \in Inputs
    /\ SegIdle
    /\ w_pc = "page" /\ w_pi = 0 /\ w_lines = <<>> /\ w_li = 0 /\ doc = <<>>
    /\ ConvIdle

WordNextPage ==
    /\ w_pc = "page" /\ w_pi < Len(text_pages)
    /\ w_pi' = w_pi + 1
    /\ w_lines' = splitlines(text_pages[w_pi + 1])
    /\ w_li' = 0
    /\ w_pc' = "line"
    /\ UNCHANGED <<doc, segVars, convVars>>

WordPagesExhausted ==
    /\ w_pc = "page" /\ w_pi = Len(text_pages)
    /\ w_pc' = "save"
    /\ UNCHANGED <<w_pi, w_lines, w_li, doc, segVars, convVars>>

WordEndOfPage ==
    /\ w_pc = "line" /\ w_li = Len(w_lines)
    /\ w_pc' = "page"
    /\ UNCHANGED <<w_pi, w_lines, w_li, doc, segVars, convVars>>

WordAtLine == w_pc = "line" /\ w_li < Len(w_lines)

WordNextLine == strip(w_lines[w_li + 1])

WordSkipBlank ==
    /\ WordAtLine /\ ~Truthy(WordNextLine)
    /\ w_li' = w_li + 1
    /\ UNCHANGED <<w_pc, w_pi, w_lines, doc, segVars, convVars>>

WordHeading ==
    /\ WordAtLine /\ Truthy(WordNextLine) /\ match_word(WordNextLine).ok
    /\ doc' = add_heading(doc, match_word(WordNextLine))
    /\ w_li' = w_li + 1
    /\ UNCHANGED <<w_pc, w_pi, w_lines, segVars, convVars>>

WordParagraph ==
    /\ WordAtLine /\ Truthy(WordNextLine) /\ ~match_word(WordNextLine).ok
    /\ doc' = add_paragraph(doc, WordNextLine)
    /\ w_li' = w_li + 1
    /\ UNCHANGED <<w_pc, w_pi, w_lines, segVars, convVars>>

\* doc.save(buffer); return buffer
WordSave ==
    /\ w_pc = "save"
    /\ w_pc' = "done"
    /\ UNCHANGED <<w_pi, w_lines, w_li, doc, segVars, convVars>>

WordNext ==
    \/ WordNextPage
    \/ WordPagesExhausted
    \/ WordEndOfPage
    \/ WordSkipBlank
    \/ WordHeading
    \/ WordParagraph
    \/ WordSave

WordSpec == WordInit /\ [][WordNext]_vars

---------------------------------------------------------------------------
(* convert_file as a state machine. *)

Suffixes == {".pdf", ".PDF", ".jpg", ".jpeg", ".png", ".txt"}

\* str.lower() on the suffixes above.
Lower(x) == IF x = ".PDF" THEN ".pdf" ELSE x

ImageExts == {".jpg", ".jpeg", ".png"}

\* What the extractors find in the file: its pages' text.
FileContents == {<<>>, <<L_plain>>, <<L_head \o <<NL>> \o L_plain, L_deep>>}

ConvInputs ==
    [exists : BOOLEAN, suffix : Suffixes, target : {"excel", "postgres", "csv"},
     excel_output : {None, <<"out.xlsx">>}, postgres_url : {None, <<"postgresql://db">>},
     content : FileContents]

FileNotFoundError == <<"FileNotFoundError", "File not found">>
UnsupportedError == <<"ValueError", "Unsupported file type">>
UrlMissingError == <<"ValueError", "postgres_url is required when target='postgres'">>
UnknownTargetError == <<"ValueError", "Unknown target">>

ConvInit ==
    /\ impl = "convert"
    /\ text_pages = <<>>
    /\ SegIdle
    /\ WordIdle
    /\ c_pc = "exists"
    /\ c_in \in ConvInputs
    /\ c_err = None /\ c_pages = None /\ extracted = 0 /\ sink = EmptySink

\* if not path.exists(): raise FileNotFoundError
ConvFileMissing ==
    /\ c_pc = "exists" /\ ~c_in.exists
    /\ c_err' = FileNotFoundError
    /\ c_pc' = "error"
    /\ UNCHANGED <<c_in, c_pages, extracted, sink, segVars, wordVars>>

ConvFileExists ==
    /\ c_pc = "exists" /\ c_in.exists
    /\ c_pc' = "dispatch"
    /\ UNCHANGED <<c_in, c_err, c_pages, extracted, sink, segVars, wordVars>>

\* extract_text_from_pdf: one trimmed string per page.
ConvExtractPdf ==
    /\ c_pc = "dispatch" /\ Lower(c_in.suffix) = ".pdf"
    /\ c_pages' = [p \in 1..Len(c_in.content) |-> strip(c_in.content[p])]
    /\ extracted' = extracted + 1
    /\ c_pc' = "target"
    /\ UNCHANGED <<c_in, c_err, sink, segVars, wordVars>>

\* extract_text_from_image: the whole image as one trimmed string.
ConvExtractImage ==
    /\ c_pc = "dispatch" /\ Lower(c_in.suffix) \in ImageExts
    /\ c_pages' = <<strip(JoinLines(c_in.content))>>
    /\ extracted' = extracted + 1
    /\ c_pc' = "target"
    /\ UNCHANGED <<c_in, c_err, sink, segVars, wordVars>>

\* Variant of ConvUnsupported: any other suffix is read as an image.
ConvUnsupported_asImage ==
    /\ c_pc = "dispatch" /\ Lower(c_in.suffix) \notin ({".pdf"} \cup ImageExts)
    /\ c_pages' = <<strip(JoinLines(c_in.content))>>
    /\ extracted' = extracted + 1
    /\ c_pc' = "target"
    /\ UNCHANGED <<c_in, c_err, sink, segVars, wordVars>>

\* else: raise ValueError("Unsupported file type")
ConvUnsupported ==
    /\ c_pc = "dispatch" /\ Lower(c_in.suffix) \notin ({".pdf"} \cup ImageExts)
    /\ c_err' = UnsupportedError
    /\ c_pc' = "error"
    /\ UNCHANGED <<c_in, c_pages, extracted, sink, segVars, wordVars>>

\* target == "excel": the default output path, then save_to_excel.
ConvSaveExcel ==
    /\ c_pc = "target" /\ c_in.target = "excel"
    /\ sink' = [sink EXCEPT !.excel =
                   [path |-> IF ~Truthy(c_in.excel_output)
                             THEN <<"input.xlsx">> ELSE c_in.excel_output,
                    sheet |-> process_text_pages("convert", c_pages)]]
    /\ c_pc' = "done"
    /\ UNCHANGED <<c_in, c_err, c_pages, extracted, segVars, wordVars>>

\* target == "postgres" without a url: raise ValueError
ConvUrlMissing ==
    /\ c_pc = "target" /\ c_in.target = "postgres" /\ ~Truthy(c_in.postgres_url)
    /\ c_err' = UrlMissingError
    /\ c_pc' = "error"
    /\ UNCHANGED <<c_in, c_pages, extracted, sink, segVars, wordVars>>

\* save_to_postgres: CREATE TABLE IF NOT EXISTS inside the transaction.
ConvPgCreateTable ==
    /\ c_pc = "target" /\ c_in.target = "postgres" /\ Truthy(c_in.postgres_url)
    /\ sink' = [sink EXCEPT !.table = TRUE]
    /\ c_pc' = "pg"
    /\ UNCHANGED <<c_in, c_err, c_pages, extracted, segVars, wordVars>>

\* save_to_postgres: one INSERT per row of the frame.
ConvPgInsert ==
    /\ c_pc = "pg"
    /\ Len(sink.inserted) < Len(process_text_pages("convert", c_pages))
    /\ sink' = [sink EXCEPT !.inserted =
                   Append(@, process_text_pages("convert", c_pages)[Len(@) + 1])]
    /\ UNCHANGED <<c_pc, c_in, c_err, c_pages, extracted, segVars, wordVars>>

\* save_to_postgres: the transaction commits when the block ends.
ConvPgCommit ==
    /\ c_pc = "pg"
    /\ Len(sink.inserted) = Len(process_text_pages("convert", c_pages))
    /\ sink' = [sink EXCEPT !.committed = TRUE]
    /\ c_pc' = "done"
    /\ UNCHANGED <<c_in, c_err, c_pages, extracted, segVars, wordVars>>

\* else: raise ValueError("Unknown target")
ConvUnknownTarget ==
    /\ c_pc = "target" /\ c_in.target \notin {"excel", "postgres"}
    /\ c_err' = UnknownTargetError
    /\ c_pc' = "error"
    /\ UNCHANGED <<c_in, c_pages, extracted, sink, segVars, wordVars>>

ConvNext ==
    \/ ConvFileMissing
    \/ ConvFileExists
    \/ ConvExtractPdf
    \/ ConvExtractImage
    \/ ConvUnsupported
    \/ ConvSaveExcel
    \/ ConvUrlMissing
    \/ ConvPgCreateTable
    \/ ConvPgInsert
    \/ ConvPgCommit
    \/ ConvUnknownTarget

ConvSpec == ConvInit /\ [][ConvNext]_vars

---------------------------------------------------------------------------
(* Helpers of the properties below. *)

\* The raw lines of a sequence of pages, in order.
RECURSIVE FlattenLines(_)
FlattenLines(pages) ==
    IF pages = <<>> THEN <<>>
    ELSE splitlines(Head(pages)) \o FlattenLines(Tail(pages))

\* The trimmed, non-blank lines among raw lines, in order.
RECURSIVE NonBlank(_)
NonBlank(ls) ==
    IF ls = <<>> THEN <<>>
    ELSE LET s == strip(Head(ls))
         IN  (IF s = <<>> THEN <<>> ELSE <<s>>) \o NonBlank(Tail(ls))

\* The raw lines the loops have taken so far.
ConsumedRaw ==
    IF pc = "line"
    THEN FlattenLines(SubSeq(text_pages, 1, pi - 1)) \o SubSeq(lines, 1, li)
    ELSE FlattenLines(SubSeq(text_pages, 1, pi))

\* The line the inner loop took last, trimmed.
LastLine == strip(lines[li])

\* The heading rule as the specification words it: digit groups separated by
\* single dots, optionally one trailing dot, then whitespace, then the rest.
IsNumberPrefix(s, k) ==
    /\ k >= 1 /\ k <= Len(s)
    /\ IsDigit(s[1])
    /\ \A i \in 1..k : IsDigit(s[i]) \/ s[i] = "."
    /\ \A i \in 1..(k - 1) : ~(s[i] = "." /\ s[i + 1] = ".")

SpecHeadingAt(s, k) == IsNumberPrefix(s, k) /\ k < Len(s) /\ IsSpace(s[k + 1])

SpecIsHeading(s) == \E k \in 1..Len(s) : SpecHeadingAt(s, k)

SpecIdentifier(s) == SubSeq(s, 1, CHOOSE k \in 1..Len(s) : SpecHeadingAt(s, k))

SpecRemainder(s) ==
    strip(SubSeq(s, 1 + (CHOOSE k \in 1..Len(s) : SpecHeadingAt(s, k)), Len(s)))

\* The records of a sequence L of trimmed non-blank lines, stated by position:
\* one per heading line, its content the heading's remainder and the lines up
\* to the next heading, each after one space.
HeadingIdx(im, L) == {i \in 1..Len(L) : clause_match(im, L[i]).ok}

NthHeading(im, L, k) ==
    CHOOSE i \in HeadingIdx(im, L) : Cardinality({j \in HeadingIdx(im, L) : j <= i}) = k

BlockEnd(im, L, i) ==
    LET later == {j \in HeadingIdx(im, L) : j > i}
    IN  IF later = {} THEN Len(L) ELSE SetMin(later) - 1

RECURSIVE SpacedConcat(_)
SpacedConcat(ls) ==
    IF ls = <<>> THEN <<>> ELSE <<" ">> \o Head(ls) \o SpacedConcat(Tail(ls))

ExpectedRecords(im, L) ==
    [k \in 1..Cardinality(HeadingIdx(im, L)) |->
        LET i == NthHeading(im, L, k)
        IN  [clause_number |-> clause_match(im, L[i]).g1,
             content |-> strip(clause_match(im, L[i]).g2
                               \o SpacedConcat(SubSeq(L, i + 1, BlockEnd(im, L, i)))),
             description |-> <<>>]]

\* The raw lines from the first heading line on.
RECURSIVE DropOrphans(_, _)
DropOrphans(im, ls) ==
    IF ls = <<>> THEN <<>>
    ELSE IF clause_match(im, strip(Head(ls))).ok THEN ls
    ELSE DropOrphans(im, Tail(ls))

\* Each page without its blank lines.
RemoveBlankLines(pages) ==
    [p \in 1..Len(pages) |-> JoinLines(NonBlank(splitlines(pages[p])))]

HasHeading(im, pages) ==
    \E i \in 1..Len(FlattenLines(pages)) : clause_match(im, strip(FlattenLines(pages)[i])).ok

\* The steps process_text_pages has yet to take: per page still to come its
\* lines, the page's own step and the step that ends it, then the end of the
\* outer loop and the return.
RECURSIVE PageSteps(_)
PageSteps(pages) ==
    IF pages = <<>> THEN 0
    ELSE Len(splitlines(Head(pages))) + 2 + PageSteps(Tail(pages))

StepsLeft ==
    CASE pc = "page" -> PageSteps(SubSeq(text_pages, pi + 1, Len(text_pages))) + 2
      [] pc = "line" -> (Len(lines) - li) + 1
                        + PageSteps(SubSeq(text_pages, pi + 1, Len(text_pages))) + 2
      [] pc = "flush" -> 1
      [] OTHER -> 0

\* Some step of process_text_pages is at hand.
CanStep ==
    \/ pc = "page" /\ pi <= Len(text_pages)
    \/ pc = "line" /\ li <= Len(lines)
    \/ pc = "flush"

---------------------------------------------------------------------------
(* Properties of process_text_pages. *)

\* C1 (as claimed): in both copies of process_text_pages a non-blank trimmed
\* line is a heading iff it is digit groups separated by single dots, an
\* optional trailing dot, whitespace and the remainder; the identifier is the
\* numeric prefix with its trailing dot, the remainder opens the content; the
\* two copies classify every line alike.
C1_HeadingRuleBoth ==
    (pc = "line" /\ li >= 1 /\ Truthy(LastLine)) =>
        /\ clause_match(impl, LastLine).ok <=> SpecIsHeading(LastLine)
        /\ SpecIsHeading(LastLine) =>
              /\ current_clause = SpecIdentifier(LastLine)
              /\ current_text = SpecRemainder(LastLine)
        /\ match_convert(LastLine).ok <=> match_streamlit(LastLine).ok

\* C1, witness: the copy in convert.py has taken the line "1. a".
C1_Witness ==
    pc = "line" /\ li >= 1 /\ impl = "convert" /\ LastLine = L_dot

\* C2: one record per heading line, in encounter order; record i carries the
\* i-th heading's identifier, the trimmed remainder-plus-continuations content
\* and an empty description; while the loops run, every heading but the last
\* taken has its record and the last is the open clause.
C2_OneRecordPerHeading ==
    pc # "idle" =>
        LET exp == ExpectedRecords(impl, NonBlank(ConsumedRaw))
            n == Len(exp)
        IN  IF pc = "done" THEN df = exp
            ELSE IF n = 0 THEN rows = <<>> /\ current_clause = None
            ELSE /\ Len(rows) = n - 1
                 /\ \A i \in 1..(n - 1) :
                       /\ rows[i].clause_number = exp[i].clause_number
                       /\ rows[i].content = exp[i].content
                 /\ current_clause = exp[n].clause_number
                 /\ strip(current_text) = exp[n].content

\* C2, witness: two headings out of numeric order, each with a continuation.
C2_Witness ==
    /\ pc = "done" /\ Len(df) = 2
    /\ df[1].clause_number = <<"1", ".", "1", ".", "1", ".", "1", ".", "1">>
    /\ df[1].content = <<"1", " ", "b">>
    /\ df[2].clause_number = <<"1">>
    /\ df[2].content = <<"a", " ", "a">>

\* C6: a line taken while no clause is open and that is no heading leaves
\* current_clause, current_text and the records as they are; an open clause is
\* never reset to null; the result is that of the input from its first heading.
C6_OrphansDiscarded ==
    [][/\ (AtLine /\ ~Truthy(current_clause) /\ ~clause_match(impl, NextLine).ok /\ li' = li + 1)
            => UNCHANGED <<current_clause, current_text, rows>>
       /\ Truthy(current_clause) => Truthy(current_clause')
       /\ (pc' = "done" /\ pc # "done")
            => df' = process_text_pages(impl, <<JoinLines(DropOrphans(impl, FlattenLines(text_pages)))>>)
      ]_vars

\* C6, witness: an orphan line was taken on the first page and another on the
\* second, and no clause is open.
C6_Witness ==
    /\ pc = "line" /\ pi = 2 /\ li >= 1 /\ ~Truthy(current_clause)
    /\ LastLine = L_plain /\ text_pages[1] = L_digits

\* C7: the result for a sequence of pages is the result for the one page that
\* holds all their lines in order.
C7_PageBoundaries ==
    pc = "done" => df = process_text_pages(impl, <<JoinLines(text_pages)>>)

\* C7, witness: a clause opened on page one took its continuation from page two.
C7_Witness ==
    /\ pc = "done" /\ text_pages = <<L_head, L_plain>>
    /\ Len(df) = 1 /\ df[1].content = <<"a", " ", "a">>

\* C8: the result is that of the same input without its blank lines.
C8_BlankLines ==
    pc = "done" => df = process_text_pages(impl, RemoveBlankLines(text_pages))

\* C8, witness: a whitespace-only line lay between a heading and its
\* continuation.
C8_Witness ==
    /\ pc = "done"
    /\ text_pages = <<JoinLines(<<L_head, L_space, L_plain>>)>>
    /\ Len(df) = 1 /\ df[1].content = <<"a", " ", "a">>

\* C9: every step of a run brings the return exactly one step nearer and a
\* step is at hand until it returns (no input makes it stop short or raise),
\* and an input without a heading line returns no record.
C9_NoFailure ==
    [][/\ StepsLeft' = StepsLeft - 1
       /\ pc' # "done" => CanStep'
       /\ (pc' = "done" /\ ~HasHeading(impl, text_pages)) => df' = <<>>
      ]_vars

\* C9, witness: non-matching lines only were processed to the end.
C9_Witness ==
    /\ pc = "done" /\ df = <<>>
    /\ text_pages = <<JoinLines(<<L_plain, L_digits>>), <<>>>>

---------------------------------------------------------------------------
(* Properties of the round trip. *)

\* What the round trip is to return: one record with the identifier fed
\* back, its content the heading's own text, one space and the content fed
\* back, byte for byte.
RefeedExpected ==
    << [clause_number |-> orig.clause_number,
        content |-> RefeedHeadingText \o <<" ">> \o orig.content,
        description |-> <<>>] >>

\* C3 (as claimed): feeding any returned record's content back as one
\* continuation line under a heading with its identifier returns a record of
\* that identifier whose content reproduces the content fed back; the line
\* fed back is never taken for a heading.
C3_RoundTripAlways ==
    (phase = "refeed" /\ pc = "done") => df = RefeedExpected

\* C3 (amended): the same, for a content that the clause pattern does not
\* match.
C3_RoundTripNonHeading ==
    (phase = "refeed" /\ pc = "done" /\ ~clause_match(impl, orig.content).ok)
        => df = RefeedExpected

\* C3, witness: a content joined from a heading's remainder and a
\* continuation line went through the round trip unchanged.
C3_Witness ==
    /\ phase = "refeed" /\ pc = "done"
    /\ orig.content = <<"a", " ", "a">>
    /\ df = RefeedExpected

---------------------------------------------------------------------------
(* Properties of create_structured_word. *)

\* The line create_structured_word took last, trimmed.
WordLastLine == strip(w_lines[w_li])

\* The number of digit groups of an identifier.
NumGroups(id) ==
    Cardinality({i \in 1..Len(id) : IsDigit(id[i]) /\ (i = 1 \/ ~IsDigit(id[i - 1]))})

\* C4 (as claimed): for every identifier as captured, a trailing dot
\* included, the heading level is the number of dot-separated numeric groups
\* capped at 4, between 1 and 4.
C4_DepthIsGroupCount ==
    (w_pc = "line" /\ w_li >= 1 /\ Truthy(WordLastLine) /\ match_word(WordLastLine).ok) =>
        LET id == match_word(WordLastLine).g1
            level == doc[Len(doc)].level
        IN  /\ level = (IF NumGroups(id) < 4 THEN NumGroups(id) ELSE 4)
            /\ level \in 1..4

\* C4, witness: the heading of the line "1. a" was added.
C4_Witness ==
    /\ w_pc = "line" /\ w_li >= 1 /\ WordLastLine = L_dot
    /\ doc[Len(doc)].kind = "heading"

\* The positions of the headings in the document, and the k-th of them.
DocHeadings == {i \in 1..Len(doc) : doc[i].kind = "heading"}

NthDocHeading(k) ==
    CHOOSE i \in DocHeadings : Cardinality({j \in DocHeadings : j <= i}) = k

\* The texts of the paragraphs that follow position i up to the next heading.
RECURSIVE ParagraphsAfter(_)
ParagraphsAfter(i) ==
    IF i + 1 > Len(doc) \/ doc[i + 1].kind = "heading" THEN <<>>
    ELSE <<doc[i + 1].text>> \o ParagraphsAfter(i + 1)

\* C5 (as claimed): the document holds exactly one heading per record of
\* process_text_pages (streamlit_app.py), in order, with the text
\* "{identifier} {content}" of the record's whole content, and nothing else:
\* no line the segmenter discards is rendered.
C5_RendersSealedRecords ==
    w_pc = "done" =>
        LET recs == process_text_pages("streamlit", text_pages)
        IN  doc = [i \in 1..Len(recs) |->
                      [kind |-> "heading",
                       text |-> recs[i].clause_number \o <<" ">> \o recs[i].content,
                       level |-> heading_level(recs[i].clause_number)]]

\* C5 (amended): the headings correspond one to one and in order to the
\* records; a heading's text is the identifier and the heading line's own
\* remainder, and the rest of the record's content is in the paragraphs that
\* follow the heading, one per continuation line; the non-blank lines before
\* the first heading, which the segmenter discards, are paragraphs too.
C5_HeadingsMatchRecords ==
    w_pc = "done" =>
        LET recs == process_text_pages("streamlit", text_pages)
            L == NonBlank(FlattenLines(text_pages))
            first == IF DocHeadings = {} THEN Len(doc) + 1 ELSE SetMin(DocHeadings)
        IN  /\ Cardinality(DocHeadings) = Len(recs)
            /\ \A k \in 1..Len(recs) :
                  LET i == NthDocHeading(k)
                  IN  /\ doc[i].text \o SpacedConcat(ParagraphsAfter(i))
                           = recs[k].clause_number \o <<" ">> \o recs[k].content
                      /\ SubSeq(doc[i].text, 1, Len(recs[k].clause_number) + 1)
                           = recs[k].clause_number \o <<" ">>
            /\ Len(doc) = Len(L)
            /\ \A i \in 1..(first - 1) :
                  doc[i].kind = "paragraph" /\ doc[i].text = L[i]

\* C5, witness: a line before the first heading, a heading and a
\* continuation line were rendered.
C5_Witness ==
    /\ w_pc = "done"
    /\ text_pages = <<JoinLines(<<L_plain, L_dot, L_plain>>)>>
    /\ Len(doc) = 3 /\ doc[1].kind = "paragraph" /\ doc[2].kind = "heading"

---------------------------------------------------------------------------
(* Properties of convert_file. *)

\* C10: extraction runs at most once and only for an existing file of a
\* supported type; a missing file or unsupported type is reported with no
\* extraction made, the missing file first; a missing postgres_url or an
\* unknown target is reported after the extraction; the sinks are written
\* only after all of that, and hold nothing in any error outcome.
C10_StepOrder ==
    /\ extracted <= 1
    /\ extracted = 1 =>
          c_in.exists /\ Lower(c_in.suffix) \in ({".pdf"} \cup ImageExts)
    /\ c_pc \in {"exists", "dispatch"} => extracted = 0
    /\ c_pc = "error" =>
          /\ sink = EmptySink
          /\ c_err \in {FileNotFoundError, UnsupportedError, UrlMissingError,
                        UnknownTargetError}
          /\ c_err = FileNotFoundError <=> ~c_in.exists
          /\ c_err \in {FileNotFoundError, UnsupportedError} => extracted = 0
          /\ c_err \in {UrlMissingError, UnknownTargetError} => extracted = 1
    /\ sink # EmptySink =>
          /\ extracted = 1
          /\ c_in.target \in {"excel", "postgres"}
          /\ c_in.target = "postgres" => Truthy(c_in.postgres_url)
    /\ c_pc = "done" => c_err = None /\ sink # EmptySink

\* C10, witness: the missing postgres_url was reported after the extraction
\* of an existing PDF, with nothing written.
C10_Witness ==
    /\ c_pc = "error" /\ c_err = UrlMissingError
    /\ extracted = 1 /\ c_in.suffix = ".PDF" /\ sink = EmptySink

====
